---------------------------- MODULE Spec2Model ----------------------------
(***************************************************************************)
(* Logo Remover: the retry wrapper around the remote AI calls              *)
(* (services/geminiService.ts), the frame extractor (utils/video.ts) and   *)
(* the application state machine of App.tsx, with the intents that the     *)
(* rendered components (FileUploader, FrameSelector, ResultDisplay, Header)*)
(* offer in each state.                                                    *)
(*                                                                         *)
(* Execution model: one browser event loop.  Every await is a suspension   *)
(* point; a handler runs from one await to the next as one action.  State  *)
(* updates made in one continuation are committed together, and the        *)
(* progress effect (useEffect on appState) runs after a commit that        *)
(* changed appState, before any later event is handled.                    *)
(***************************************************************************)
EXTENDS Integers, Sequences, FiniteSets, TLC

\* ------------------------------------------------------------- bounds
\* remote operations (Inpaint / Animate calls) that may be outstanding at once
MaxOps == 1
\* credential-selection prompts that may be pending at once
MaxPrompts == 1
\* frame extractions that may be pending at once
MaxExtracts == 1
\* largest coordinate / extent of a drawn rectangle
MaxCoord == 6
\* width and height in pixels of the frame extracted from an uploaded video
FrameSide == 6
\* largest width / height of an image handed to getPositionalDescription
MaxSide == 18

\* ------------------------------------------------------------- strings
\* A string is modelled by the substrings the program searches it for (has),
\* the digits captured by /"retryDelay":"(\d+)/ (digits; <<>> when the pattern
\* does not match) and an identifying text.  null marks the JavaScript null.
Str(text, has, digits) ==
    [null |-> FALSE, text |-> text, has |-> has, digits |-> digits]

Null == [null |-> TRUE, text |-> "null", has |-> {}, digits |-> <<>>]

Includes(s, token) == token \in s.has

\* A thrown value: isError is `instanceof Error`, message is error.message for
\* an Error (String(error) is "Error: " + message and has the same substrings)
\* and String(value) otherwise; origin tells the throw sites apart (object
\* identity).
Thrown(isError, message, origin) ==
    [isError |-> isError, message |-> message, origin |-> origin]

NoError == Thrown(FALSE, Null, "none")

String(e) == e.message

\* parseInt(match[1], 10) on a non-empty sequence of decimal digits
RECURSIVE ParseInt(_)
ParseInt(ds) ==
    IF Len(ds) = 0 THEN 0
    ELSE 10 * ParseInt(SubSeq(ds, 1, Len(ds) - 1)) + ds[Len(ds)]

RECURSIVE Pow2(_)
Pow2(n) == IF n = 0 THEN 1 ELSE 2 * Pow2(n - 1)


\* ------------------------------------------------------------- errors
\* Failures the remote service (SDK calls) can raise.  Each is an Error whose
\* text carries some of the markers the program searches for.
RemoteErrors ==
    { Thrown(TRUE, Str("429 Too Many Requests", {"429"}, <<>>), "remote"),
      Thrown(TRUE, Str("RESOURCE_EXHAUSTED retryDelay 0s",
                       {"RESOURCE_EXHAUSTED"}, <<0>>), "remote"),
      Thrown(TRUE, Str("429 RESOURCE_EXHAUSTED retryDelay 12s",
                       {"429", "RESOURCE_EXHAUSTED"}, <<1, 2>>), "remote"),
      Thrown(TRUE, Str("403 PERMISSION_DENIED API_KEY_INVALID",
                       {"403", "API_KEY_INVALID"}, <<>>), "remote"),
      Thrown(TRUE, Str("400 INVALID_ARGUMENT API_KEY_INVALID",
                       {"API_KEY_INVALID"}, <<>>), "remote"),
      Thrown(TRUE, Str("404 NOT_FOUND", {"404", "NOT_FOUND"}, <<>>), "remote"),
      Thrown(TRUE, Str("500 INTERNAL", {}, <<>>), "remote"),
      Thrown(TRUE, Str("billing: API quota disabled", {"API quota"}, <<>>),
             "remote"),
      Thrown(FALSE, Str("[object Object]", {}, <<>>), "remote") }

\* img.onerror = reject: the rejection value is an Event, not an Error
ImageLoadError == Thrown(FALSE, Str("[object Event]", {}, <<>>), "image")

NoImageDataError ==
    Thrown(TRUE, Str("No image data returned from API.", {}, <<>>), "apiCall")

NoDownloadLinkError ==
    Thrown(TRUE, Str("Video generation succeeded but no download link was provided.",
                     {}, <<>>), "apiCall")

KeyNotFoundError ==
    Thrown(TRUE, Str("API key not found. Please select your API key again.",
                     {"API key not found"}, <<>>), "apiCall")

\* `Failed to download the generated video. Status: ${videoResponse.status}`
DownloadFailedError(status) ==
    Thrown(TRUE, Str("Failed to download the generated video. Status: " \o status,
                     {status}, <<>>), "apiCall")

\* fetch() itself rejecting (network failure)
FetchError == Thrown(TRUE, Str("TypeError: Failed to fetch", {}, <<>>), "fetch")

\* unsuccessful download responses: HTTP status and whether the body holds
\* "Requested entity was not found."
BadResponses ==
    { [status |-> "404", entityNotFound |-> TRUE],
      [status |-> "404", entityNotFound |-> FALSE],
      [status |-> "403", entityNotFound |-> FALSE],
      [status |-> "429", entityNotFound |-> FALSE],
      [status |-> "500", entityNotFound |-> FALSE] }

NoResponse == [status |-> "none", entityNotFound |-> FALSE]

\* ------------------------------------------------------------- selections
\* a Selection {x, y, width, height}, or null
NullSelection == [null |-> TRUE, x |-> 0, y |-> 0, width |-> 0, height |-> 0]

Rect(x, y, w, h) == [null |-> FALSE, x |-> x, y |-> y, width |-> w, height |-> h]

\* ------------------------------------------------------------- Positional Descriptor
\* centerX = x + width / 2 against imageWidth / 3 and imageWidth / 3 * 2; the
\* comparisons of these quotients are made on 6 * centerX and 2 * imageWidth,
\* which is exact for whole-pixel inputs
Position(start, extent, side, low, mid, high) ==
    IF 3 * (2 * start + extent) < 2 * side THEN low
    ELSE IF 3 * (2 * start + extent) > 4 * side THEN high
    ELSE mid

\* getPositionalDescription naming the horizontal position before the vertical
getPositionalDescription_Swapped(selection, imageWidth, imageHeight) ==
    LET verticalPos ==
            Position(selection.y, selection.height, imageHeight,
                     "top", "middle", "bottom")
        horizontalPos ==
            Position(selection.x, selection.width, imageWidth,
                     "left", "center", "right")
    IN  IF verticalPos = "middle" /\ horizontalPos = "center" THEN "in the center"
        ELSE IF verticalPos = "middle" THEN "in the " \o horizontalPos \o " center"
        ELSE IF horizontalPos = "center" THEN "in the center " \o verticalPos
        ELSE "in the " \o horizontalPos \o " " \o verticalPos \o " area"

getPositionalDescription(selection, imageWidth, imageHeight) ==
    LET verticalPos ==
            Position(selection.y, selection.height, imageHeight,
                     "top", "middle", "bottom")
        horizontalPos ==
            Position(selection.x, selection.width, imageWidth,
                     "left", "center", "right")
    IN  IF verticalPos = "middle" /\ horizontalPos = "center" THEN "in the center"
        ELSE IF verticalPos = "middle" THEN "in the center " \o horizontalPos
        ELSE IF horizontalPos = "center" THEN "in the " \o verticalPos \o " center"
        ELSE "in the " \o verticalPos \o " " \o horizontalPos \o " area"

\* ------------------------------------------------------------- withRetry
MAX_RETRIES == 3

IsQuotaError(e) ==
    Includes(String(e), "429") \/ Includes(String(e), "RESOURCE_EXHAUSTED")

\* RetryDelay without the 500 ms buffer added to a suggested delay
RetryDelay_NoBuffer(i, e) ==
    IF Len(String(e).digits) > 0
    THEN ParseInt(String(e).digits) * 1000
    ELSE 5000 * Pow2(i)

\* the wait before the next attempt, in milliseconds
RetryDelay(i, e) ==
    IF Len(String(e).digits) > 0
    THEN ParseInt(String(e).digits) * 1000 + 500
    ELSE 5000 * Pow2(i)

QuotaExceededError(serviceName) ==
    Thrown(TRUE,
           Str("You have exceeded your API quota for " \o serviceName,
               {"exceeded your API quota", "API quota", serviceName}, <<>>),
           "withRetry")

\* One running withRetry(apiCall, serviceName):
\*   i         the loop index; phase "call" (awaiting apiCall), "delay" (awaiting
\*             the backoff timer), "returned" / "threw" (withRetry has settled and
\*             its caller's continuation is queued)
\*   step      where the awaited apiCall is suspended
\*   calls, delays, requests   invocations of apiCall, backoff waits performed,
\*             generation requests submitted to the remote service
\*   image, sel   the arguments base64Image and selection of removeObjectFromFrame
\*   position  the phrase computed by the running apiCall ("none" outside it)
\*   aspectRatio  the ratio the running Animate attempt asks for ("none"
\*             outside it)
\*   operation the operation handle held by the running Animate attempt
\*   wait      the poll wait in progress, in milliseconds (0 when none)
NoOperation == [present |-> FALSE, job |-> 0, done |-> FALSE, link |-> FALSE]

\* a handle of remote job number `job` (the job created by the call's job-th
\* generation request)
Operation(job, done, hasLink) ==
    [present |-> TRUE, job |-> job, done |-> done, link |-> hasLink]

NoOp ==
    [kind |-> "none", serviceName |-> "none", i |-> 0, phase |-> "none",
     step |-> "none", lastError |-> NoError, delay |-> 0, calls |-> 0,
     delays |-> 0, requests |-> 0, value |-> Null, thrown |-> NoError,
     resp |-> NoResponse, image |-> Null, sel |-> NullSelection,
     position |-> "none", aspectRatio |-> "none", operation |-> NoOperation,
     wait |-> 0]

WithRetryStart(kind, serviceName) ==
    [NoOp EXCEPT !.kind = kind, !.serviceName = serviceName, !.phase = "call",
                 !.step = "dims", !.calls = 1]

OnFulfilled(op, v) ==
    [op EXCEPT !.phase = "returned", !.step = "none", !.value = v,
               !.position = "none", !.aspectRatio = "none"]

\* OnRejected retrying whatever the error is
OnRejected_RetryAll(op, e) ==
    LET caught == [op EXCEPT !.lastError = e, !.step = "none", !.resp = NoResponse,
                             !.position = "none", !.aspectRatio = "none"]
    IN  IF op.i < MAX_RETRIES - 1
        THEN [caught EXCEPT !.phase = "delay", !.delay = RetryDelay(op.i, e),
                            !.delays = @ + 1]
        ELSE [caught EXCEPT !.phase = "threw", !.i = MAX_RETRIES,
                            !.thrown = QuotaExceededError(op.serviceName)]

\* OnRejected starting the next attempt without waiting
OnRejected_NoDelay(op, e) ==
    LET caught == [op EXCEPT !.lastError = e, !.step = "none", !.resp = NoResponse,
                             !.position = "none", !.aspectRatio = "none"]
    IN  IF ~IsQuotaError(e)
        THEN [caught EXCEPT !.phase = "threw", !.thrown = e]
        ELSE IF op.i < MAX_RETRIES - 1
        THEN [caught EXCEPT !.i = @ + 1, !.phase = "call", !.step = "dims",
                            !.calls = @ + 1]
        ELSE [caught EXCEPT !.phase = "threw", !.i = MAX_RETRIES,
                            !.thrown = QuotaExceededError(op.serviceName)]

\* OnRejected rethrowing the last underlying failure once the attempts are used up
OnRejected_ThrowLast(op, e) ==
    LET caught == [op EXCEPT !.lastError = e, !.step = "none", !.resp = NoResponse,
                             !.position = "none", !.aspectRatio = "none"]
    IN  IF ~IsQuotaError(e)
        THEN [caught EXCEPT !.phase = "threw", !.thrown = e]
        ELSE IF op.i < MAX_RETRIES - 1
        THEN [caught EXCEPT !.phase = "delay", !.delay = RetryDelay(op.i, e),
                            !.delays = @ + 1]
        ELSE [caught EXCEPT !.phase = "threw", !.i = MAX_RETRIES, !.thrown = e]

\* OnRejected comparing the loop index with MAX_RETRIES instead of MAX_RETRIES - 1
OnRejected_ExtraAttempt(op, e) ==
    LET caught == [op EXCEPT !.lastError = e, !.step = "none", !.resp = NoResponse,
                             !.position = "none", !.aspectRatio = "none"]
    IN  IF ~IsQuotaError(e)
        THEN [caught EXCEPT !.phase = "threw", !.thrown = e]
        ELSE IF op.i < MAX_RETRIES
        THEN [caught EXCEPT !.phase = "delay", !.delay = RetryDelay(op.i, e),
                            !.delays = @ + 1]
        ELSE [caught EXCEPT !.phase = "threw", !.i = MAX_RETRIES,
                            !.thrown = QuotaExceededError(op.serviceName)]

\* the catch block of withRetry's loop, and the throw after the loop
OnRejected(op, e) ==
    LET caught == [op EXCEPT !.lastError = e, !.step = "none", !.resp = NoResponse,
                             !.position = "none", !.aspectRatio = "none"]
    IN  IF ~IsQuotaError(e)
        THEN [caught EXCEPT !.phase = "threw", !.thrown = e]
        ELSE IF op.i < MAX_RETRIES - 1
        THEN [caught EXCEPT !.phase = "delay", !.delay = RetryDelay(op.i, e),
                            !.delays = @ + 1]
        ELSE [caught EXCEPT !.phase = "threw", !.i = MAX_RETRIES,
                            !.thrown = QuotaExceededError(op.serviceName)]

\* OnDelayElapsed going on with the remote job of the failed attempt
OnDelayElapsed_ResumeJob(op) ==
    [op EXCEPT !.i = @ + 1, !.phase = "call",
               !.step = IF op.operation.present THEN "poll" ELSE "dims",
               !.delay = 0, !.calls = @ + 1]

\* the backoff wait is over: the next loop iteration calls apiCall afresh
OnDelayElapsed(op) ==
    [op EXCEPT !.i = @ + 1, !.phase = "call", !.step = "dims", !.delay = 0,
               !.calls = @ + 1, !.operation = NoOperation]


\* ------------------------------------------------------------- Remote Edit Client
\* RemoveObjectCatch turning every failure into the generic one
RemoveObjectCatch_Generic(e) ==
    Thrown(TRUE, Str("Failed to process image with the AI model.", {}, <<>>),
           "removeObjectFromFrame")

\* catch block of removeObjectFromFrame: what the caller receives for `e`
RemoveObjectCatch(e) ==
    IF e.isError /\ Includes(e.message, "API quota") THEN e
    ELSE IF e.isError /\ Includes(e.message, "403")
    THEN Thrown(TRUE, Str("API key is invalid or lacks permissions.", {}, <<>>),
                "removeObjectFromFrame")
    ELSE Thrown(TRUE, Str("Failed to process image with the AI model.", {}, <<>>),
                "removeObjectFromFrame")

\* catch block of generateVideoFromFrame
GenerateVideoCatch(e) ==
    IF Includes(String(e), "API quota") \/ Includes(String(e), "API key not found")
    THEN IF e.isError THEN e
         ELSE Thrown(TRUE, String(e), "generateVideoFromFrame")
    ELSE IF Includes(String(e), "404") \/ Includes(String(e), "NOT_FOUND")
    THEN Thrown(TRUE,
                Str("API key not found or project is not configured for Veo. Please select a valid API key again.",
                    {"API key not found"}, <<>>),
                "generateVideoFromFrame")
    ELSE IF Includes(String(e), "403") \/ Includes(String(e), "API_KEY_INVALID")
    THEN Thrown(TRUE,
                Str("API key is invalid or lacks permissions for the Veo model.",
                    {}, <<>>),
                "generateVideoFromFrame")
    ELSE Thrown(TRUE, Str("Failed to generate video with the AI model.", {}, <<>>),
                "generateVideoFromFrame")

\* ------------------------------------------------------------- session data
\* canvas.toDataURL('image/jpeg', 0.9) of a w x h canvas: a data URL of a JPEG
\* image of that size
Frame(w, h) ==
    [null |-> FALSE, text |-> "data:image/jpeg;base64,<frame>", has |-> {},
     digits |-> <<>>, width |-> w, height |-> h]

FrameDataUrl == Frame(FrameSide, FrameSide)

\* `data:image/png;base64,${resultBase64}`: a data URL of the w x h image the
\* removal returned
ProcessedImage(w, h) ==
    [null |-> FALSE, text |-> "data:image/png;base64,<result>", has |-> {},
     digits |-> <<>>, width |-> w, height |-> h]

ProcessedDataUrl == ProcessedImage(FrameSide, FrameSide)
VideoObjectUrl == Str("blob:<video>", {}, <<>>)
VideoFile == Str("<File video/*>", {}, <<>>)
ImageData == Str("<result>", {}, <<>>)

ExtractFailedMessage ==
    Str("Failed to load video or extract frame. Please try another file.", {}, <<>>)
UnknownErrorMessage == Str("An unknown error occurred.", {}, <<>>)

\* rectangles the pointer handlers of FrameSelector hand to onSelect: the empty
\* rectangle of pointer-down and the dragged rectangles
DrawnSelections ==
    { Rect(1, 2, 0, 0), Rect(0, 1, 4, MaxCoord), Rect(1, 0, MaxCoord, 4),
      Rect(0, 0, 5, 5) }

\* RemoveDisabled testing the width alone
RemoveDisabled_WidthOnly(sel) == sel.null \/ sel.width < 5

\* `disabled` of the Remove Object button
RemoveDisabled(sel) == sel.null \/ sel.width < 5 \/ sel.height < 5

\* the fake progress schedule of the progress effect
Schedule == <<15, 40, 75, 90>>

VARIABLES
    appState, videoFile, frameSrc, selection, processedImageSrc,
    processedVideoUrl, isApiKeySelected, error, isQuotaError, progress,
    \* environment and scheduling
    aistudio,       \* window.aistudio offers hasSelectedApiKey / openSelectKey
    mounted,        \* the mount effect (checkApiKey) has run
    keyCheck,       \* the start-up hasSelectedApiKey() promise: "none",
                    \* "pending" or "settled"
    effectPending,  \* appState changed in the last commit; progress effect due
    timers,         \* schedule timers armed by the progress effect: 0 = none
                    \* armed, k = the k-th timer fires next, 5 = all fired
    extracting,     \* extracting[u]: the extractFrame promise in slot u is pending
    prompts,        \* handleChangeApiKey calls suspended at an await
    ops             \* withRetry calls in progress

appVars ==
    <<appState, videoFile, frameSrc, selection, processedImageSrc,
      processedVideoUrl, isApiKeySelected, error, isQuotaError, progress>>

vars ==
    <<appState, videoFile, frameSrc, selection, processedImageSrc,
      processedVideoUrl, isApiKeySelected, error, isQuotaError, progress,
      aistudio, mounted, keyCheck, effectPending, timers, extracting, prompts,
      ops>>

OpSlots == 1 .. MaxOps
PromptSlots == 1 .. MaxPrompts
ExtractSlots == 1 .. MaxExtracts

NoPrompt ==
    [phase |-> "none", isQuotaError |-> FALSE, processedImageSrc |-> Null,
     frameSrc |-> Null]

Init ==
    /\ appState = "idle"
    /\ videoFile = Null
    /\ frameSrc = Null
    /\ selection = NullSelection
    /\ processedImageSrc = Null
    /\ processedVideoUrl = Null
    /\ isApiKeySelected = "null"
    /\ error = Null
    /\ isQuotaError = FALSE
    /\ progress = 0
    /\ aistudio \in BOOLEAN
    /\ mounted = FALSE
    /\ keyCheck = "none"
    /\ effectPending = FALSE
    /\ timers = 0
    /\ extracting = [u \in ExtractSlots |-> FALSE]
    /\ prompts = [p \in PromptSlots |-> NoPrompt]
    /\ ops = [s \in OpSlots |-> NoOp]

\* a continuation is queued in the microtask queue, or an effect is due: these
\* run before the next timer, response or user event is handled
Settling(op) == op.phase \in {"returned", "threw"}

Busy == effectPending \/ \E s \in OpSlots : Settling(ops[s])

Ready == mounted /\ ~Busy

Outstanding(kinds) == {s \in OpSlots : ops[s].kind \in kinds}

FreeOpSlot(s) ==
    /\ ops[s].kind = "none"
    /\ \A t \in OpSlots : t < s => ops[t].kind # "none"

FreeExtractSlot(u) ==
    /\ ~extracting[u]
    /\ \A v \in ExtractSlots : v < u => extracting[v]

FreePromptSlot(p) ==
    /\ prompts[p].phase = "none"
    /\ \A q \in PromptSlots : q < p => prompts[q].phase # "none"

\* what renderContent puts on screen
View ==
    CASE appState = "idle" -> "uploader"
      [] appState = "video_loaded" ->
            IF ~frameSrc.null THEN "selector" ELSE "blank"
      [] appState \in {"processing", "generating_video"} -> "loader"
      [] appState = "complete" ->
            IF ~frameSrc.null /\ ~processedImageSrc.null THEN "result" ELSE "blank"
      [] appState = "video_complete" ->
            IF ~frameSrc.null /\ ~processedImageSrc.null /\ ~processedVideoUrl.null
            THEN "video_result" ELSE "blank"
      [] appState = "error" ->
            IF isQuotaError THEN "quota_panel" ELSE "error_panel"


\* ------------------------------------------------------------- mount, effects
\* useEffect(() => { checkApiKey() }, [])
MountEffect ==
    /\ ~mounted
    /\ mounted' = TRUE
    /\ IF aistudio
       THEN keyCheck' = "pending" /\ UNCHANGED isApiKeySelected
       ELSE keyCheck' = "settled" /\ isApiKeySelected' = "true"
    /\ UNCHANGED <<appState, videoFile, frameSrc, selection, processedImageSrc,
                   processedVideoUrl, error, isQuotaError, progress, aistudio,
                   effectPending, timers, extracting, prompts, ops>>

BoolStr(b) == IF b THEN "true" ELSE "false"

CheckApiKeyResolves ==
    /\ Ready /\ keyCheck = "pending"
    /\ \E hasKey \in BOOLEAN : isApiKeySelected' = BoolStr(hasKey)
    /\ keyCheck' = "settled"
    /\ UNCHANGED <<appState, videoFile, frameSrc, selection, processedImageSrc,
                   processedVideoUrl, error, isQuotaError, progress, aistudio,
                   mounted, effectPending, timers, extracting, prompts, ops>>

\* hasSelectedApiKey() rejects inside checkApiKey: nothing catches it
CheckApiKeyRejects ==
    /\ Ready /\ keyCheck = "pending"
    /\ keyCheck' = "settled"
    /\ UNCHANGED <<appVars, aistudio, mounted, effectPending, timers,
                   extracting, prompts, ops>>

\* useEffect(..., [appState]): clears the previous timers, resets progress and,
\* in processing, arms the four schedule timers
ProgressEffect ==
    /\ effectPending
    /\ effectPending' = FALSE
    /\ progress' = 0
    /\ timers' = IF appState = "processing" THEN 1 ELSE 0
    /\ UNCHANGED <<appState, videoFile, frameSrc, selection, processedImageSrc,
                   processedVideoUrl, isApiKeySelected, error, isQuotaError,
                   aistudio, mounted, keyCheck, extracting, prompts, ops>>

TimerFires ==
    /\ Ready /\ timers \in 1 .. Len(Schedule)
    /\ progress' = Schedule[timers]
    /\ timers' = timers + 1
    /\ UNCHANGED <<appState, videoFile, frameSrc, selection, processedImageSrc,
                   processedVideoUrl, isApiKeySelected, error, isQuotaError,
                   aistudio, mounted, keyCheck, effectPending, extracting,
                   prompts, ops>>

\* ------------------------------------------------------------- upload
\* FileUploader.handleFile -> handleFileSelect, up to `await extractFrame(...)`
FileSelected ==
    /\ Ready /\ View = "uploader"
    /\ \E isVideo \in BOOLEAN :
         IF isVideo
         THEN /\ \E u \in ExtractSlots :
                   /\ FreeExtractSlot(u)
                   /\ extracting' = [extracting EXCEPT ![u] = TRUE]
              /\ videoFile' = VideoFile
              /\ appState' = "processing"
              /\ error' = Null
              /\ isQuotaError' = FALSE
              /\ effectPending' = (appState # "processing")
         ELSE UNCHANGED <<videoFile, appState, error, isQuotaError,
                             extracting, effectPending>>
    /\ UNCHANGED <<frameSrc, selection, processedImageSrc, processedVideoUrl,
                   isApiKeySelected, progress, aistudio, mounted, keyCheck,
                   timers, prompts, ops>>

\* extractFrame resolves ('seeked'): the rest of handleFileSelect's try block
ExtractResolves(u) ==
    /\ Ready /\ extracting[u]
    /\ extracting' = [extracting EXCEPT ![u] = FALSE]
    /\ frameSrc' = FrameDataUrl
    /\ appState' = "video_loaded"
    /\ effectPending' = (appState # "video_loaded")
    /\ UNCHANGED <<videoFile, selection, processedImageSrc, processedVideoUrl,
                   isApiKeySelected, error, isQuotaError, progress, aistudio,
                   mounted, keyCheck, timers, prompts, ops>>

\* ExtractRejects storing the message without leaving processing
ExtractRejects_NoState(u) ==
    /\ Ready /\ extracting[u]
    /\ extracting' = [extracting EXCEPT ![u] = FALSE]
    /\ error' = ExtractFailedMessage
    /\ UNCHANGED <<appState, effectPending, videoFile, frameSrc, selection,
                   processedImageSrc, processedVideoUrl, isApiKeySelected,
                   isQuotaError, progress, aistudio, mounted, keyCheck, timers,
                   prompts, ops>>

\* extractFrame rejects (no canvas context, or 'error'): the catch block
ExtractRejects(u) ==
    /\ Ready /\ extracting[u]
    /\ extracting' = [extracting EXCEPT ![u] = FALSE]
    /\ error' = ExtractFailedMessage
    /\ appState' = "error"
    /\ effectPending' = (appState # "error")
    /\ UNCHANGED <<videoFile, frameSrc, selection, processedImageSrc,
                   processedVideoUrl, isApiKeySelected, isQuotaError, progress,
                   aistudio, mounted, keyCheck, timers, prompts, ops>>

\* ------------------------------------------------------------- selection, removal
\* FrameSelector pointer handlers -> onSelect = setSelection
DrawSelection ==
    /\ Ready /\ View = "selector"
    /\ \E sel \in DrawnSelections : selection' = sel
    /\ UNCHANGED <<appState, videoFile, frameSrc, processedImageSrc,
                   processedVideoUrl, isApiKeySelected, error, isQuotaError,
                   progress, aistudio, mounted, keyCheck, effectPending, timers,
                   extracting, prompts, ops>>

\* handleRemoveLogo returns at once without a frame or a selection
RemoveGuard(frame, sel) == ~frame.null /\ ~sel.null

\* a click on Remove Object: the button's `disabled`, then handleRemoveLogo up
\* to `await removeObjectFromFrame(...)`
ConfirmRemoval ==
    /\ Ready /\ View = "selector"
    /\ IF ~RemoveDisabled(selection) /\ RemoveGuard(frameSrc, selection)
       THEN \E s \in OpSlots :
              /\ FreeOpSlot(s)
              /\ ops' = [ops EXCEPT ![s] =
                    [WithRetryStart("inpaint", "image processing")
                       EXCEPT !.image = frameSrc, !.sel = selection]]
              /\ appState' = "processing"
              /\ error' = Null
              /\ isQuotaError' = FALSE
              /\ effectPending' = (appState # "processing")
       ELSE UNCHANGED <<ops, appState, error, isQuotaError, effectPending>>
    /\ UNCHANGED <<videoFile, frameSrc, selection, processedImageSrc,
                   processedVideoUrl, isApiKeySelected, progress, aistudio,
                   mounted, keyCheck, timers, extracting, prompts>>

\* a click on Generate Video (offered by ResultDisplay when a credential is
\* selected): handleGenerateVideo up to `await generateVideoFromFrame(...)`
GenerateVideo ==
    /\ Ready /\ View = "result" /\ isApiKeySelected = "true"
    /\ ~processedImageSrc.null
    /\ \E s \in OpSlots :
         /\ FreeOpSlot(s)
         /\ ops' = [ops EXCEPT ![s] =
                      [WithRetryStart("animate", "video generation")
                         EXCEPT !.image = processedImageSrc]]
    /\ appState' = "generating_video"
    /\ error' = Null
    /\ isQuotaError' = FALSE
    /\ effectPending' = (appState # "generating_video")
    /\ UNCHANGED <<videoFile, frameSrc, selection, processedImageSrc,
                   processedVideoUrl, isApiKeySelected, progress, aistudio,
                   mounted, keyCheck, timers, extracting, prompts>>

\* Reset leaving the selection in place
Reset_KeepsSelection ==
    /\ Ready /\ View \in {"result", "video_result", "quota_panel", "error_panel"}
    /\ appState' = "idle"
    /\ videoFile' = Null
    /\ frameSrc' = Null
    /\ processedImageSrc' = Null
    /\ processedVideoUrl' = Null
    /\ error' = Null
    /\ isQuotaError' = FALSE
    /\ progress' = 0
    /\ effectPending' = (appState # "idle")
    /\ UNCHANGED <<selection, isApiKeySelected, aistudio, mounted, keyCheck,
                   timers, extracting, prompts, ops>>

\* Reset clearing the credential flag with the rest of the session
Reset_ClearsKey ==
    /\ Ready /\ View \in {"result", "video_result", "quota_panel", "error_panel"}
    /\ appState' = "idle"
    /\ videoFile' = Null
    /\ frameSrc' = Null
    /\ selection' = NullSelection
    /\ processedImageSrc' = Null
    /\ processedVideoUrl' = Null
    /\ error' = Null
    /\ isQuotaError' = FALSE
    /\ progress' = 0
    /\ isApiKeySelected' = "null"
    /\ effectPending' = (appState # "idle")
    /\ UNCHANGED <<aistudio, mounted, keyCheck, timers, extracting, prompts, ops>>

\* handleReset, offered by ResultDisplay and by both error panels
Reset ==
    /\ Ready /\ View \in {"result", "video_result", "quota_panel", "error_panel"}
    /\ appState' = "idle"
    /\ videoFile' = Null
    /\ frameSrc' = Null
    /\ selection' = NullSelection
    /\ processedImageSrc' = Null
    /\ processedVideoUrl' = Null
    /\ error' = Null
    /\ isQuotaError' = FALSE
    /\ progress' = 0
    /\ effectPending' = (appState # "idle")
    /\ UNCHANGED <<isApiKeySelected, aistudio, mounted, keyCheck, timers,
                   extracting, prompts, ops>>


\* ------------------------------------------------------------- credential prompt
\* a click on a credential button (Header, quota panel, ResultDisplay):
\* handleChangeApiKey up to `await window.aistudio.openSelectKey()`.  The
\* callback closes over isQuotaError, processedImageSrc and frameSrc as
\* rendered when the click happens.
ChangeApiKey ==
    /\ Ready
    /\ IF aistudio
       THEN \E p \in PromptSlots :
              /\ FreePromptSlot(p)
              /\ prompts' = [prompts EXCEPT ![p] =
                    [phase |-> "open", isQuotaError |-> isQuotaError,
                     processedImageSrc |-> processedImageSrc,
                     frameSrc |-> frameSrc]]
       ELSE UNCHANGED prompts
    /\ UNCHANGED <<appVars, aistudio, mounted, keyCheck, effectPending, timers,
                   extracting, ops>>

\* openSelectKey() resolves; hasSelectedApiKey() is called and awaited
PromptCloses ==
    /\ Ready
    /\ \E p \in PromptSlots :
         /\ prompts[p].phase = "open"
         /\ prompts' = [prompts EXCEPT ![p].phase = "has"]
    /\ UNCHANGED <<appVars, aistudio, mounted, keyCheck, effectPending, timers,
                   extracting, ops>>

\* openSelectKey() or hasSelectedApiKey() rejects: nothing catches it
PromptRejects ==
    /\ Ready
    /\ \E p \in PromptSlots :
         /\ prompts[p].phase \in {"open", "has"}
         /\ prompts' = [prompts EXCEPT ![p] = NoPrompt]
    /\ UNCHANGED <<appVars, aistudio, mounted, keyCheck, effectPending, timers,
                   extracting, ops>>

\* the state the continuation of handleChangeApiKey moves to
StateAfterKeyChange(c, current) ==
    IF ~c.processedImageSrc.null THEN "complete"
    ELSE IF ~c.frameSrc.null THEN "video_loaded"
    ELSE current

\* HasKeyResolves going back whenever a credential is present, quota error
\* shown or not
HasKeyResolves_NoQuotaTest ==
    /\ Ready
    /\ \E p \in PromptSlots, hasKey \in BOOLEAN :
         /\ prompts[p].phase = "has"
         /\ prompts' = [prompts EXCEPT ![p] = NoPrompt]
         /\ isApiKeySelected' = BoolStr(hasKey)
         /\ IF hasKey
            THEN /\ isQuotaError' = FALSE
                 /\ error' = Null
                 /\ appState' = StateAfterKeyChange(prompts[p], appState)
            ELSE UNCHANGED <<isQuotaError, error, appState>>
    /\ effectPending' = (appState' # appState)
    /\ UNCHANGED <<videoFile, frameSrc, selection, processedImageSrc,
                   processedVideoUrl, progress, aistudio, mounted, keyCheck,
                   timers, extracting, ops>>

\* hasSelectedApiKey() resolves: the rest of handleChangeApiKey
HasKeyResolves ==
    /\ Ready
    /\ \E p \in PromptSlots, hasKey \in BOOLEAN :
         /\ prompts[p].phase = "has"
         /\ prompts' = [prompts EXCEPT ![p] = NoPrompt]
         /\ isApiKeySelected' = BoolStr(hasKey)
         /\ IF hasKey /\ prompts[p].isQuotaError
            THEN /\ isQuotaError' = FALSE
                 /\ error' = Null
                 /\ appState' = StateAfterKeyChange(prompts[p], appState)
            ELSE UNCHANGED <<isQuotaError, error, appState>>
    /\ effectPending' = (appState' # appState)
    /\ UNCHANGED <<videoFile, frameSrc, selection, processedImageSrc,
                   processedVideoUrl, progress, aistudio, mounted, keyCheck,
                   timers, extracting, ops>>

\* ------------------------------------------------------------- apiCall steps
OpStep(s, next) ==
    /\ ops' = [ops EXCEPT ![s] = next]
    /\ UNCHANGED <<appVars, aistudio, mounted, keyCheck, effectPending, timers,
                   extracting, prompts>>

Awaiting(s, kinds, steps) ==
    /\ Ready
    /\ ops[s].kind \in kinds /\ ops[s].phase = "call" /\ ops[s].step \in steps

\* AspectRatio asking for the widescreen ratio for a square image too
AspectRatio_SquareWide(width, height) ==
    IF width >= height THEN "16:9" ELSE "9:16"

\* `width > height ? '16:9' : '9:16'`
AspectRatio(width, height) ==
    IF width > height THEN "16:9" ELSE "9:16"

\* getImageDimensions resolves: Inpaint derives the positional phrase from the
\* image's size, Animate the aspect ratio; the generation request is submitted
DimsResolve ==
    \E s \in OpSlots :
      /\ Awaiting(s, {"inpaint", "animate"}, {"dims"})
      /\ OpStep(s, [ops[s] EXCEPT
                      !.step = "generate", !.requests = @ + 1,
                      !.position =
                         IF ops[s].kind = "inpaint"
                         THEN getPositionalDescription(ops[s].sel,
                                  ops[s].image.width, ops[s].image.height)
                         ELSE "none",
                      !.aspectRatio =
                         IF ops[s].kind = "animate"
                         THEN AspectRatio(ops[s].image.width, ops[s].image.height)
                         ELSE "none"])

DimsReject ==
    \E s \in OpSlots :
      /\ Awaiting(s, {"inpaint", "animate"}, {"dims"})
      /\ OpStep(s, OnRejected(ops[s], ImageLoadError))

\* an SDK call (generateContent, generateVideos, getVideosOperation) rejects
RemoteRejects ==
    \E s \in OpSlots, e \in RemoteErrors :
      /\ Awaiting(s, {"inpaint", "animate"}, {"generate", "poll"})
      /\ OpStep(s, OnRejected(ops[s], e))

\* GenerateContentResolves returning whatever the response holds
GenerateContentResolves_EmptySuccess ==
    \E s \in OpSlots, hasImage \in BOOLEAN :
      /\ Awaiting(s, {"inpaint"}, {"generate"})
      /\ OpStep(s, OnFulfilled(ops[s], IF hasImage THEN ImageData ELSE Null))

\* generateContent resolves, with or without an image part
GenerateContentResolves ==
    \E s \in OpSlots, hasImage \in BOOLEAN :
      /\ Awaiting(s, {"inpaint"}, {"generate"})
      /\ OpStep(s, IF hasImage THEN OnFulfilled(ops[s], ImageData)
                   ELSE OnRejected(ops[s], NoImageDataError))

\* the wait between two status fetches, in milliseconds
PollInterval == 10000

\* after an operation handle arrived: the `while (!operation.done)` test and,
\* once done, the download link check and the fetch
AfterOperation(op, done, hasLink) ==
    LET job  == IF op.step = "generate" THEN op.requests ELSE op.operation.job
        held == [op EXCEPT !.operation = Operation(job, done, hasLink)]
    IN  IF ~done THEN [held EXCEPT !.step = "wait", !.wait = PollInterval]
        ELSE IF ~hasLink THEN OnRejected(held, NoDownloadLinkError)
        ELSE [held EXCEPT !.step = "download"]

\* generateVideos / getVideosOperation resolves with an operation handle
OperationResolves ==
    \E s \in OpSlots, done \in BOOLEAN, hasLink \in BOOLEAN :
      /\ Awaiting(s, {"animate"}, {"generate", "poll"})
      /\ OpStep(s, AfterOperation(ops[s], done, hasLink))

\* the 10 second poll wait elapses; getVideosOperation is called
PollWaitElapsed ==
    \E s \in OpSlots :
      /\ Awaiting(s, {"animate"}, {"wait"})
      /\ OpStep(s, [ops[s] EXCEPT !.step = "poll", !.wait = 0])

\* fetch(downloadLink) resolves
FetchResolves ==
    \E s \in OpSlots :
      /\ Awaiting(s, {"animate"}, {"download"})
      /\ \/ OpStep(s, [ops[s] EXCEPT !.step = "blob"])
         \/ \E r \in BadResponses :
              OpStep(s, [ops[s] EXCEPT !.step = "text", !.resp = r])

\* fetch, text() or blob() rejects
FetchRejects ==
    \E s \in OpSlots :
      /\ Awaiting(s, {"animate"}, {"download", "text", "blob"})
      /\ OpStep(s, OnRejected(ops[s], FetchError))

\* the error thrown for an unsuccessful download response
DownloadError(resp) ==
    IF resp.entityNotFound THEN KeyNotFoundError
    ELSE DownloadFailedError(resp.status)

\* videoResponse.text() resolves
TextResolves ==
    \E s \in OpSlots :
      /\ Awaiting(s, {"animate"}, {"text"})
      /\ OpStep(s, OnRejected(ops[s], DownloadError(ops[s].resp)))

\* videoResponse.blob() resolves
BlobResolves ==
    \E s \in OpSlots :
      /\ Awaiting(s, {"animate"}, {"blob"})
      /\ OpStep(s, OnFulfilled(ops[s], VideoObjectUrl))

\* the backoff timer of withRetry fires: next loop iteration
DelayElapsed ==
    \E s \in OpSlots :
      /\ Ready /\ ops[s].phase = "delay"
      /\ OpStep(s, OnDelayElapsed(ops[s]))


\* ------------------------------------------------------------- continuations
\* `e instanceof Error ? e.message : 'An unknown error occurred.'`
ErrorMessage(e) == IF e.isError THEN e.message ELSE UnknownErrorMessage

\* withRetry settled inside removeObjectFromFrame: its catch block, then the
\* rest of handleRemoveLogo (try block on success, catch block on failure)
InpaintSettles ==
    \E s \in OpSlots :
      /\ ops[s].kind = "inpaint" /\ Settling(ops[s])
      /\ ops' = [ops EXCEPT ![s] = NoOp]
      /\ IF ops[s].phase = "returned"
         THEN /\ progress' = 100
              /\ processedImageSrc' = ProcessedDataUrl
              /\ appState' = "complete"
              /\ UNCHANGED <<error, isQuotaError>>
         ELSE LET errorMessage == ErrorMessage(RemoveObjectCatch(ops[s].thrown))
              IN  /\ progress' = 0
                  /\ isQuotaError' =
                        IF Includes(errorMessage, "API quota") THEN TRUE
                        ELSE isQuotaError
                  /\ error' = errorMessage
                  /\ appState' = "error"
                  /\ UNCHANGED processedImageSrc
      /\ effectPending' = (effectPending \/ appState' # appState)
      /\ UNCHANGED <<videoFile, frameSrc, selection, processedVideoUrl,
                     isApiKeySelected, aistudio, mounted, keyCheck, timers,
                     extracting, prompts>>

\* withRetry settled inside generateVideoFromFrame: its catch block, then the
\* rest of handleGenerateVideo
AnimateSettles ==
    \E s \in OpSlots :
      /\ ops[s].kind = "animate" /\ Settling(ops[s])
      /\ ops' = [ops EXCEPT ![s] = NoOp]
      /\ IF ops[s].phase = "returned"
         THEN /\ processedVideoUrl' = ops[s].value
              /\ appState' = "video_complete"
              /\ UNCHANGED <<error, isQuotaError, isApiKeySelected>>
         ELSE LET errorMessage == ErrorMessage(GenerateVideoCatch(ops[s].thrown))
              IN  /\ isQuotaError' =
                        IF \/ Includes(errorMessage, "API quota")
                           \/ Includes(errorMessage, "API key not found")
                        THEN TRUE ELSE isQuotaError
                  /\ isApiKeySelected' =
                        IF Includes(errorMessage, "API key not found") THEN "false"
                        ELSE isApiKeySelected
                  /\ error' = errorMessage
                  /\ appState' = "error"
                  /\ UNCHANGED processedVideoUrl
      /\ effectPending' = (effectPending \/ appState' # appState)
      /\ UNCHANGED <<videoFile, frameSrc, selection, processedImageSrc, progress,
                     aistudio, mounted, keyCheck, timers, extracting, prompts>>

\* ------------------------------------------------------------- specification
Next ==
    \/ MountEffect
    \/ CheckApiKeyResolves
    \/ CheckApiKeyRejects
    \/ ProgressEffect
    \/ TimerFires
    \/ FileSelected
    \/ \E u \in ExtractSlots : ExtractResolves(u)
    \/ \E u \in ExtractSlots : ExtractRejects(u)
    \/ DrawSelection
    \/ ConfirmRemoval
    \/ GenerateVideo
    \/ Reset
    \/ ChangeApiKey
    \/ PromptCloses
    \/ PromptRejects
    \/ HasKeyResolves
    \/ DimsResolve
    \/ DimsReject
    \/ RemoteRejects
    \/ GenerateContentResolves
    \/ OperationResolves
    \/ PollWaitElapsed
    \/ FetchResolves
    \/ FetchRejects
    \/ TextResolves
    \/ BlobResolves
    \/ DelayElapsed
    \/ InpaintSettles
    \/ AnimateSettles

Spec == Init /\ [][Next]_vars


\* ------------------------------------------------------------- withRetry properties
\* the text of e carries one of the quota markers
QuotaText(e) ==
    "429" \in e.message.has \/ "RESOURCE_EXHAUSTED" \in e.message.has

\* in this step the attempt awaited by the withRetry call in slot s failed
AttemptFailed(s) ==
    /\ ops[s].phase = "call" /\ ops'[s].kind # "none"
    /\ ops'[s].phase # "returned"
    /\ ~(ops'[s].phase = "call" /\ ops'[s].calls = ops[s].calls)

\* C1: an attempt that fails with an error whose text has neither "429" nor
\* "RESOURCE_EXHAUSTED" ends withRetry at once: withRetry throws that same
\* error, no delay and no further attempt follow, on the first attempt as
\* after earlier quota failures.
C1_NonQuotaFailurePropagates ==
    [][\A s \in OpSlots :
        /\ (AttemptFailed(s) /\ ~QuotaText(ops'[s].lastError))
           => /\ ops'[s].phase = "threw"
              /\ ops'[s].thrown = ops'[s].lastError
              /\ ops'[s].thrown.origin # "withRetry"
              /\ ops'[s].calls = ops[s].calls
              /\ ops'[s].delays = ops[s].delays
        /\ (ops[s].phase = "threw")
           => (ops'[s] = ops[s] \/ ops'[s].kind = "none")]_vars

\* C1 witness: a non-quota failure on the second attempt, after one quota
\* failure and one delay, thrown on unchanged
C1_Witness ==
    \E s \in OpSlots :
      /\ ops[s].phase = "threw" /\ ops[s].calls = 2 /\ ops[s].delays = 1
      /\ ~QuotaText(ops[s].lastError) /\ ops[s].thrown = ops[s].lastError

\* C2: when attempts 1..k-1 fail with quota errors and attempt k succeeds
\* (k in 1..3), withRetry returns the value of attempt k after exactly k
\* invocations and k-1 delays, each delay lying between two attempts.
C2_SuccessAfterQuotaFailures ==
    /\ [](\A s \in OpSlots :
            /\ ops[s].phase = "returned"
               => /\ ops[s].calls \in 1 .. 3
                  /\ ops[s].delays = ops[s].calls - 1
                  /\ ops[s].i = ops[s].calls - 1
                  /\ ops[s].value =
                        (IF ops[s].kind = "inpaint" THEN ImageData ELSE VideoObjectUrl)
            /\ ops[s].phase = "call"
               => ops[s].calls = ops[s].i + 1 /\ ops[s].delays = ops[s].i
            /\ ops[s].phase = "delay"
               => ops[s].calls = ops[s].i + 1 /\ ops[s].delays = ops[s].i + 1)
    /\ [][\A s \in OpSlots :
            /\ (ops[s].phase = "call" /\ ops'[s].phase = "returned")
               => ops'[s].calls = ops[s].calls /\ ops'[s].delays = ops[s].delays
            /\ (ops[s].phase = "delay" /\ ops'[s] # ops[s])
               => /\ ops'[s].phase = "call"
                  /\ ops'[s].calls = ops[s].calls + 1
                  /\ ops'[s].delays = ops[s].delays
            /\ (ops'[s].phase = "delay" /\ ops'[s] # ops[s])
               => ops[s].phase = "call" /\ QuotaText(ops'[s].lastError)]_vars

\* C2 witness: quota failures on attempts 1 and 2, success on attempt 3
C2_Witness ==
    \E s \in OpSlots :
      /\ ops[s].phase = "returned" /\ ops[s].calls = 3 /\ ops[s].delays = 2
      /\ QuotaText(ops[s].lastError) /\ ~ops[s].value.null

\* the label each operation passes to withRetry
LabelOf(kind) ==
    IF kind = "inpaint" THEN "image processing" ELSE "video generation"

\* C3: three quota failures make withRetry fail with the distinguished error:
\* its message contains "exceeded your API quota" and the caller's label, and
\* it is a new error, not one of the underlying failures.
C3_ExhaustionGivesQuotaExceeded ==
    /\ [](\A s \in OpSlots :
            /\ ops[s].lastError.origin # "withRetry"
            /\ (ops[s].phase = "threw" /\ QuotaText(ops[s].lastError))
               => /\ ops[s].calls = 3 /\ ops[s].delays = 2
                  /\ ops[s].thrown.isError
                  /\ "exceeded your API quota" \in ops[s].thrown.message.has
                  /\ LabelOf(ops[s].kind) \in ops[s].thrown.message.has
                  /\ ops[s].thrown.origin = "withRetry"
                  /\ ops[s].thrown # ops[s].lastError)
    /\ [][\A s \in OpSlots :
            (AttemptFailed(s) /\ ops[s].calls = 3 /\ QuotaText(ops'[s].lastError))
            => ops'[s].phase = "threw"]_vars

\* C3 witness: Animate exhausted its three attempts
C3_Witness ==
    \E s \in OpSlots :
      /\ ops[s].kind = "animate" /\ ops[s].phase = "threw" /\ ops[s].calls = 3
      /\ QuotaText(ops[s].lastError)
      /\ "video generation" \in ops[s].thrown.message.has

\* the number a sequence of decimal digits denotes
RECURSIVE DigitsValue(_, _)
DigitsValue(ds, acc) ==
    IF ds = <<>> THEN acc ELSE DigitsValue(Tail(ds), 10 * acc + Head(ds))

\* C4: the wait after a quota failure on attempt index i that is followed by
\* another attempt is N*1000 + 500 ms when the error text suggests a retry
\* delay of N seconds, and otherwise 5000 ms (i = 0) or 10000 ms (i = 1).
C4_DelayComputation ==
    \A s \in OpSlots :
      ops[s].phase = "delay"
      => /\ ops[s].i \in {0, 1}
         /\ QuotaText(ops[s].lastError)
         /\ LET ds == ops[s].lastError.message.digits
            IN  ops[s].delay =
                  IF ds # <<>> THEN DigitsValue(ds, 0) * 1000 + 500
                  ELSE IF ops[s].i = 0 THEN 5000 ELSE 10000

\* C4 witness: after the second failure, a suggested delay of 12 s wins over
\* the 10 s of the exponential schedule
C4_Witness ==
    \E s \in OpSlots :
      /\ ops[s].phase = "delay" /\ ops[s].i = 1
      /\ ops[s].lastError.message.digits = <<1, 2>>
      /\ ops[s].delay = 12500


\* ------------------------------------------------------------- session properties
\* the screen offers an action that starts Inpaint or Animate, and the event
\* loop is free to take the click
StartOffered ==
    /\ Ready
    /\ \/ View = "selector" /\ ~selection.null /\ selection.width >= 5
          /\ selection.height >= 5
       \/ View = "result" /\ isApiKeySelected = "true"

\* C5: at most one Inpaint or Animate call is outstanding: while one is
\* unresolved, no user intent can start a second one.
C5_NoSecondOperationCanStart ==
    Outstanding({"inpaint", "animate"}) # {} => ~StartOffered

\* everything handleReset clears
Cleared ==
    /\ videoFile.null /\ frameSrc.null /\ selection.null
    /\ processedImageSrc.null /\ processedVideoUrl.null
    /\ error.null /\ ~isQuotaError /\ progress = 0

\* C6: a reset, in whatever state it is issued, sets the state to idle, makes
\* video file, frame, selection, processed image, processed video and error
\* null, the quota flag false and progress 0.
C6_ResetClearsEverything ==
    [][Reset => (appState' = "idle" /\ Cleared')]_vars

\* C6 witness: the state right after a reset issued from the quota error panel
\* (the prompt opened there still remembers the flag and the frame)
C6_Witness ==
    /\ appState = "idle" /\ effectPending /\ Cleared
    /\ \E p \in PromptSlots :
         prompts[p].isQuotaError /\ ~prompts[p].frameSrc.null

\* the media element reports 'seeked' or 'error' for every load that was
\* started and the event loop gets to dispatch it; queued continuations and
\* effects run
FairSpec ==
    /\ Spec
    /\ \A u \in ExtractSlots : SF_vars(ExtractResolves(u) \/ ExtractRejects(u))
    /\ WF_vars(ProgressEffect)
    /\ WF_vars(InpaintSettles \/ AnimateSettles)

C8_InvalidRemovalRejected ==
    [][(/\ appState = "video_loaded"
        /\ \/ frameSrc.null \/ selection.null
           \/ selection.width < 5 \/ selection.height < 5)
       => /\ ConfirmRemoval => UNCHANGED vars
          /\ \A s \in OpSlots : ops'[s].kind = "inpaint" => ops[s].kind = "inpaint"]_vars

\* C8 witness: the selector is shown with a 4 pixel wide rectangle drawn
C8_Witness ==
    /\ Ready /\ View = "selector" /\ ~selection.null
    /\ selection.width = 4 /\ selection.height >= 5
    /\ Outstanding({"inpaint", "animate"}) = {}

\* a step in which an asynchronous step started by the session fails
FailureStep ==
    \/ \E u \in ExtractSlots : ExtractRejects(u)
    \/ CheckApiKeyRejects
    \/ PromptRejects
    \/ \E s \in OpSlots : ops[s].phase = "threw" /\ ops'[s].kind = "none"

\* C9: every failure of an asynchronous step the session starts (frame
\* extraction, Inpaint, Animate, the start-up credential check, the credential
\* prompt) ends in state error with a non-empty message.
C9_EveryFailureReachesError ==
    [][FailureStep
       => (appState' = "error" /\ ~error'.null /\ error'.text # "")]_vars

\* C10: an Inpaint call whose three attempts all met quota failures ends the
\* session in error with the quota flag set and a message containing
\* "exceeded your API quota"; frame and selection stay as they are and no
\* processed image is stored.
C10_InpaintQuotaExhaustion ==
    [][\A s \in OpSlots :
         (/\ ops[s].kind = "inpaint" /\ ops[s].phase = "threw"
          /\ ops[s].calls = 3 /\ QuotaText(ops[s].lastError)
          /\ ops'[s].kind = "none")
         => /\ appState' = "error"
            /\ isQuotaError'
            /\ "exceeded your API quota" \in error'.has
            /\ frameSrc' = frameSrc
            /\ selection' = selection
            /\ processedImageSrc' = processedImageSrc]_vars

\* C10 witness: the quota panel after the first Inpaint of a session gave up
C10_Witness ==
    /\ appState = "error" /\ isQuotaError /\ effectPending
    /\ "exceeded your API quota" \in error.has
    /\ "image processing" \in error.has
    /\ ~frameSrc.null /\ ~selection.null /\ processedImageSrc.null

\* ------------------------------------------------------------- removal outcome
\* C11: a successful Inpaint ends in complete with the processed image stored,
\* the frame left as it was and progress 100, and progress stays 100 for as
\* long as the session rests in complete.
C11_InpaintSuccessRestsAt100 ==
    [][/\ \A s \in OpSlots :
            (/\ ops[s].kind = "inpaint" /\ ops[s].phase = "returned"
             /\ ops'[s].kind = "none")
            => /\ appState' = "complete"
               /\ ~processedImageSrc'.null
               /\ frameSrc' = frameSrc
               /\ progress' = 100
       /\ (appState = "complete" /\ progress = 100 /\ appState' = "complete")
          => progress' = 100]_vars

\* ------------------------------------------------------------- error normalization
\* the fixed messages each operation's catch block can produce itself: the
\* generic failure and the dedicated credential messages
BoundaryMessages(kind) ==
    IF kind = "inpaint"
    THEN { "Failed to process image with the AI model.",
           "API key is invalid or lacks permissions." }
    ELSE { "Failed to generate video with the AI model.",
           "API key is invalid or lacks permissions for the Veo model.",
           "API key not found or project is not configured for Veo. Please select a valid API key again." }

\* C12: at the boundary of Inpaint and Animate the quota-exceeded error of
\* withRetry and the operation's own credential error reach the caller with
\* their message unchanged; every other failure reaches the caller as one of
\* the operation's fixed messages, never with the text of the underlying error.
C12_ErrorNormalization ==
    [][\A s \in OpSlots :
         (ops[s].phase = "threw" /\ ops'[s].kind = "none")
         => LET e == ops[s].thrown
            IN  IF e.origin = "withRetry" \/ e = KeyNotFoundError
                THEN error' = e.message
                ELSE error'.text \in BoundaryMessages(ops[s].kind)]_vars

\* ------------------------------------------------------------- credential switch
\* the credential prompt in slot p delivers its re-check result in this step
RecheckDelivered(p) ==
    HasKeyResolves /\ prompts[p].phase = "has" /\ prompts'[p].phase = "none"

\* C13: a credential switch requested in error with the quota flag set, whose
\* re-check arrives while the session is in error with the flag set: resolved
\* present, it clears error and flag and moves to complete when a processed
\* image exists, otherwise to video_loaded when a frame exists, and never
\* leaves the session in error; resolved absent, it changes neither state,
\* error nor flag.
C13_CredentialSwitchLeavesQuotaError ==
    [][\A p \in PromptSlots :
         (/\ RecheckDelivered(p)
          /\ prompts[p].isQuotaError
          /\ appState = "error" /\ isQuotaError)
         => IF isApiKeySelected' = "true"
            THEN /\ error'.null /\ ~isQuotaError'
                 /\ appState' # "error"
                 /\ ~processedImageSrc.null => appState' = "complete"
                 /\ (processedImageSrc.null /\ ~frameSrc.null)
                    => appState' = "video_loaded"
            ELSE UNCHANGED <<appState, error, isQuotaError>>]_vars

\* ------------------------------------------------------------- video generation
\* the Animate call in slot s moves on: an awaited promise of its apiCall
\* settles, its backoff timer fires, or its caller's continuation runs
AnimateAdvances(s) ==
    Next /\ ops[s].kind = "animate" /\ ops'[s] # ops[s]

\* the remote operation awaited in slot s reports done
OperationDone(s) ==
    /\ Awaiting(s, {"animate"}, {"generate", "poll"})
    /\ \E hasLink \in BOOLEAN : OpStep(s, AfterOperation(ops[s], TRUE, hasLink))

\* every promise an Animate call awaits settles, the remote operation does not
\* stay unfinished forever, and queued continuations and effects run
AnimateFairSpec ==
    /\ Spec
    /\ WF_vars(ProgressEffect)
    /\ WF_vars(InpaintSettles \/ AnimateSettles)
    /\ \A s \in OpSlots : SF_vars(AnimateAdvances(s)) /\ SF_vars(OperationDone(s))

\* no Animate call is created in this step
NoAnimateIssued ==
    \A s \in OpSlots : ops'[s].kind = "animate" => ops[s].kind = "animate"

\* the request can be made: the result is shown with the credential flag
\* absent, the event loop is free and a prompt can still be opened
RequestPossible ==
    /\ Ready /\ View = "result" /\ isApiKeySelected = "false"
    /\ \E p \in PromptSlots : prompts[p].phase = "none"

\* the click opens the credential prompt and issues no Animate call
RequestOpensPrompt ==
    /\ ChangeApiKey
    /\ \E p \in PromptSlots : prompts[p].phase = "none" /\ prompts'[p].phase = "open"
    /\ NoAnimateIssued

\* C14: in complete with the credential flag absent the request offered in
\* place of Generate Video opens the credential prompt and issues no Animate
\* call.
C14_RequestOpensPrompt ==
    RequestPossible => ENABLED RequestOpensPrompt

\* The part of the generate-video path that holds: where the host offers the
\* credential API, the request made in complete with the credential flag
\* absent opens the credential prompt; in every environment no Animate call
\* is issued from complete unless the flag is present, a successful Animate
\* call ends in video_complete with the video reference stored, and (under
\* AnimateFairSpec) an Animate call whose awaited promises settle and whose
\* remote operation eventually reports done ends there or fails.
PromptThenAnimate ==
    /\ []((RequestPossible /\ aistudio) => ENABLED RequestOpensPrompt)
    /\ [][/\ (appState = "complete" /\ isApiKeySelected # "true")
             => NoAnimateIssued
          /\ \A s \in OpSlots :
               (/\ ops[s].kind = "animate" /\ ops[s].phase = "returned"
                /\ ops'[s].kind = "none")
               => appState' = "video_complete" /\ ~processedVideoUrl'.null]_vars
    /\ \A s \in OpSlots :
         (ops[s].kind = "animate")
         ~> \/ appState = "video_complete" /\ ~processedVideoUrl.null
            \/ ops[s].phase = "threw"

\* C14 witness: the result is shown with the credential flag absent, the
\* prompt has been opened from there and no call is outstanding
C14_Witness ==
    /\ Ready /\ View = "result" /\ isApiKeySelected = "false"
    /\ \E p \in PromptSlots : prompts[p].phase = "open"
    /\ Outstanding({"inpaint", "animate"}) = {}

\* ------------------------------------------------------------- Positional Descriptor properties
\* selections the Remove Object button accepts, and frames of every size
ValidSelections ==
    { Rect(x, y, w, h) : x \in 0 .. MaxCoord, y \in 0 .. MaxCoord,
                         w \in 5 .. MaxCoord, h \in 5 .. MaxCoord }

Frames == { Frame(w, h) : w \in 1 .. MaxSide, h \in 1 .. MaxSide }

\* a session in processing right after Remove Object was clicked, for every
\* accepted selection and every frame size
DescriptorInit ==
    /\ appState = "processing"
    /\ videoFile = VideoFile
    /\ frameSrc \in Frames
    /\ selection \in ValidSelections
    /\ processedImageSrc = Null
    /\ processedVideoUrl = Null
    /\ isApiKeySelected = "true"
    /\ error = Null
    /\ isQuotaError = FALSE
    /\ progress = 0
    /\ aistudio = FALSE
    /\ mounted = TRUE
    /\ keyCheck = "settled"
    /\ effectPending = FALSE
    /\ timers = 1
    /\ extracting = [u \in ExtractSlots |-> FALSE]
    /\ prompts = [p \in PromptSlots |-> NoPrompt]
    /\ ops = [s \in OpSlots |->
                IF s = 1
                THEN [WithRetryStart("inpaint", "image processing")
                        EXCEPT !.image = frameSrc, !.sel = selection]
                ELSE NoOp]

DescriptorNext == DimsResolve

DescriptorSpec == DescriptorInit /\ [][DescriptorNext]_vars

\* the third of 0 .. side in which a point with twice the coordinate c2 lies:
\* 1, 2 or 3 when strictly inside that third, 0 on a boundary between thirds
ThirdOf(c2, side) ==
    IF 3 * c2 < 2 * side THEN 1
    ELSE IF 3 * c2 > 2 * side /\ 3 * c2 < 4 * side THEN 2
    ELSE IF 3 * c2 > 4 * side THEN 3
    ELSE 0

\* the phrase for column col and row row (each 1, 2 or 3)
PhraseTable ==
    << <<"in the top left area", "in the top center", "in the top right area">>,
       <<"in the center left", "in the center", "in the center right">>,
       <<"in the bottom left area", "in the bottom center",
         "in the bottom right area">> >>

NinePhrases == { PhraseTable[r][c] : r \in 1 .. 3, c \in 1 .. 3 }

\* C15: for every selection and every image of positive size the phrase is one
\* of the nine fixed phrases, and when the selection's center lies strictly
\* inside a third on both axes it is the phrase of that row and column: "in
\* the center" for the middle of both, the four "... area" phrases for the
\* corners, "in the center left / right" for the middle row, "in the top /
\* bottom center" for the middle column.
C15_PositionalPhrase ==
    \A s \in OpSlots :
      (ops[s].kind = "inpaint" /\ ops[s].step = "generate")
      => LET sel == ops[s].sel
             col == ThirdOf(2 * sel.x + sel.width, ops[s].image.width)
             row == ThirdOf(2 * sel.y + sel.height, ops[s].image.height)
         IN  /\ ops[s].position \in NinePhrases
             /\ (col # 0 /\ row # 0) => ops[s].position = PhraseTable[row][col]

\* C15 witness: a selection whose center is in the middle column and the top
\* row of a wide image
C15_Witness ==
    \E s \in OpSlots :
      /\ ops[s].kind = "inpaint" /\ ops[s].step = "generate"
      /\ ops[s].position = "in the top center"
      /\ ops[s].sel.x > 0 /\ ops[s].image.width > ops[s].image.height

\* ------------------------------------------------------------- artifacts
\* C16: in every reachable state a stored processed video implies a stored
\* processed image and a stored processed image implies a stored frame;
\* video_loaded implies a frame, complete implies a processed image, and
\* video_complete implies a processed image and a processed video.
C16_ArtifactDependencies ==
    /\ ~processedVideoUrl.null => ~processedImageSrc.null
    /\ ~processedImageSrc.null => ~frameSrc.null
    /\ appState = "video_loaded" => ~frameSrc.null
    /\ appState = "complete" => ~processedImageSrc.null
    /\ appState = "video_complete"
       => (~processedImageSrc.null /\ ~processedVideoUrl.null)

\* ------------------------------------------------------------- credential failures
\* the text of e carries a credential-invalid / forbidden marker and no quota
\* marker
CredentialInvalid(e) ==
    /\ "403" \in e.message.has \/ "API_KEY_INVALID" \in e.message.has
    /\ ~QuotaText(e)

\* the dedicated invalid-credential message of each operation
InvalidCredentialMessage(kind) ==
    IF kind = "inpaint" THEN "API key is invalid or lacks permissions."
    ELSE "API key is invalid or lacks permissions for the Veo model."

\* C17: a remote failure whose text carries the 403 / API_KEY_INVALID marker
\* is never retried (no further attempt, no backoff delay: a failure of the
\* first attempt leaves the call invoked exactly once) and reaches the caller
\* as the dedicated invalid-credential error, not as the generic failure and
\* not as the quota-exceeded error.
C17_InvalidCredentialSurfaced ==
    [][\A s \in OpSlots :
         /\ (AttemptFailed(s) /\ CredentialInvalid(ops'[s].lastError))
            => /\ ops'[s].phase = "threw"
               /\ ops'[s].thrown = ops'[s].lastError
               /\ ops'[s].calls = ops[s].calls
               /\ ops'[s].delays = ops[s].delays
         /\ (/\ ops[s].phase = "threw" /\ ops'[s].kind = "none"
             /\ ops[s].thrown.origin = "remote"
             /\ CredentialInvalid(ops[s].thrown))
            => /\ appState' = "error"
               /\ error'.text = InvalidCredentialMessage(ops[s].kind)]_vars

\* ------------------------------------------------------------- malformed responses
\* the failures raised for a response without the expected payload or link
MalformedResponseErrors == {NoImageDataError, NoDownloadLinkError}

ScheduleValues == {Schedule[k] : k \in 1 .. Len(Schedule)}

\* an Inpaint call is outstanding: handleRemoveLogo is suspended at its await
RemovalOutstanding == \E s \in OpSlots : ops[s].kind = "inpaint"

\* C19: progress is moved to a schedule value (15, 40, 75, 90) only while the
\* session is in processing entered from a removal request (so an Inpaint call
\* is outstanding); it never decreases while the session stays in processing
\* with the progress effect done; outside processing it is 0 once the progress
\* effect of the transition has run, and no schedule timer is armed there.
C19_ProgressSchedule ==
    /\ [][(progress' # progress /\ progress' \in ScheduleValues)
            => (appState = "processing" /\ RemovalOutstanding)]_vars
    /\ [][(/\ appState = "processing" /\ appState' = "processing"
           /\ ~effectPending)
            => progress' >= progress]_vars
    /\ []((appState # "processing" /\ ~effectPending)
            => (progress = 0 /\ timers \notin 1 .. Len(Schedule)))

\* C19 witness: the schedule has moved progress to 15 while the session is in
\* processing with no Inpaint call outstanding
C19_Witness ==
    /\ appState = "processing" /\ progress = Schedule[1]
    /\ ~RemovalOutstanding

\* ------------------------------------------------------------- Animate poll loop
\* the steps of the `while (!operation.done)` loop
PollLoop == {"wait", "poll"}

\* the status fetch awaited in slot s answers with an unfinished operation
PollAgain(s) ==
    /\ Awaiting(s, {"animate"}, {"poll"})
    /\ OpStep(s, AfterOperation(ops[s], FALSE, FALSE))

\* The poll loop: in an Animate call the download is started and the call returns only
\* with an operation handle that reported done and carries a link; while the
\* operation is not done every status fetch follows exactly one wait of the
\* fixed 10 seconds, the loop leaves the retry index, the backoff count, the
\* call count and the single generation request untouched, and a status fetch
\* can always be answered "not done" once more (no cap); the loop is left only
\* by a handle that reports done or by a failing remote call, the call settles
\* only after withRetry returned or threw, and, when no operation stays
\* unfinished forever and every awaited promise settles, every Animate call
\* ends.
AnimatePollLoop ==
    /\ [](\A s \in OpSlots : ops[s].kind = "animate" =>
            /\ (ops[s].step \in {"download", "text", "blob"}
                   \/ ops[s].phase = "returned")
                 => (ops[s].operation.done /\ ops[s].operation.link)
            /\ ops[s].step \in PollLoop
                 => (ops[s].operation.present /\ ~ops[s].operation.done)
            /\ ops[s].wait = (IF ops[s].step = "wait" THEN PollInterval ELSE 0)
            /\ (Awaiting(s, {"animate"}, {"poll"}) => ENABLED PollAgain(s)))
    /\ [][\A s \in OpSlots : (ops[s].kind = "animate" /\ ops'[s] # ops[s]) =>
            /\ ops'[s].step = "poll" => ops[s].step = "wait"
            /\ ops[s].step = "wait" => ops'[s].step = "poll"
            /\ ops'[s].step = "wait" => ops[s].step \in {"generate", "poll"}
            /\ ops'[s].step = "download" => ops[s].step \in {"generate", "poll"}
            /\ ops[s].step \in PollLoop
                 => /\ ops'[s].calls = ops[s].calls
                    /\ ops'[s].requests = ops[s].requests
                    /\ ops'[s].step \in PollLoop
                         => (ops'[s].i = ops[s].i /\ ops'[s].delays = ops[s].delays)
            /\ (ops[s].step \in PollLoop /\ ops'[s].step \notin PollLoop)
                 => /\ ops[s].step = "poll"
                    /\ \/ ops'[s].step = "download" /\ ops'[s].operation.done
                       \/ /\ AttemptFailed(s)
                          /\ \/ ops'[s].lastError.origin = "remote"
                             \/ /\ ops'[s].lastError = NoDownloadLinkError
                                /\ ops'[s].operation.done
            /\ ops'[s].kind = "none" => Settling(ops[s])]_vars
    /\ \A s \in OpSlots : (ops[s].kind = "animate") ~> (ops[s].kind # "animate")

\* C20 witness: in generating_video an Animate call is fetching the status of an operation that
\* was not done when last seen, the 10 second wait behind it
C20_Witness ==
    \E s \in OpSlots :
      /\ Awaiting(s, {"animate"}, {"poll"})
      /\ ops[s].operation.present /\ ~ops[s].operation.done
      /\ ops[s].wait = 0 /\ ops[s].requests = 1
      /\ appState = "generating_video"

\* C20: an Animate call ends only after its remote operation reported done or
\* a remote call failed, and until it ends the session stays in
\* generating_video: the session leaves generating_video only in the step in
\* which an Animate call that has returned or thrown settles.
C20_StaysInGeneratingVideo ==
    [][(appState = "generating_video" /\ appState' # "generating_video")
         => \E s \in OpSlots :
              /\ ops[s].kind = "animate" /\ Settling(ops[s])
              /\ ops'[s].kind = "none"]_vars

\* ------------------------------------------------------------- Animate failure
\* the Animate call in slot s, having thrown, settles in this step while the
\* session is in generating_video
AnimateFails(s) ==
    /\ appState = "generating_video"
    /\ ops[s].kind = "animate" /\ ops[s].phase = "threw"
    /\ ops'[s].kind = "none"

\* the failure handed to handleGenerateVideo is a credential-missing error: its
\* text has "API key not found"
CredentialMissing(e) == Includes(String(e), "API key not found")

\* the failure handed to handleGenerateVideo is a quota-exceeded error: its text
\* has "API quota", as the error withRetry throws after the last attempt has
QuotaExceeded(e) == Includes(String(e), "API quota")

\* C21: an Animate failure in generating_video ends in error with the message
\* stored and no processed video; the quota flag is set exactly when the
\* failure is the quota-exceeded error or a credential-missing error, the
\* credential flag becomes absent exactly when it is a credential-missing
\* error; an unsuccessful download whose body holds "Requested entity was not
\* found." is credential-missing, every other unsuccessful download is a
\* generic failure (generic message, no flag touched).
C21_AnimateFailure ==
    [][\A s \in OpSlots : AnimateFails(s) =>
         LET e == ops[s].thrown
             received == GenerateVideoCatch(e)
         IN  /\ appState' = "error"
             /\ ~error'.null /\ error' = ErrorMessage(received)
             /\ processedVideoUrl'.null
             /\ isQuotaError' =
                    (QuotaExceeded(received) \/ CredentialMissing(received))
             /\ isApiKeySelected' =
                    (IF CredentialMissing(received) THEN "false"
                     ELSE isApiKeySelected)
             /\ e = KeyNotFoundError => CredentialMissing(received)
             /\ (\E r \in BadResponses : e = DownloadFailedError(r.status))
                  => /\ error'.text = "Failed to generate video with the AI model."
                     /\ ~isQuotaError'
                     /\ isApiKeySelected' = isApiKeySelected]_vars

\* C21 witness: in generating_video an Animate call has thrown the failure of
\* an unsuccessful download without the entity-not-found marker
C21_Witness ==
    /\ appState = "generating_video"
    /\ \E s \in OpSlots :
         /\ ops[s].kind = "animate" /\ ops[s].phase = "threw"
         /\ \E r \in BadResponses : ops[s].thrown = DownloadFailedError(r.status)

\* ------------------------------------------------------------- credential flag
\* the start-up presence check delivers its result in this step: the awaited
\* hasSelectedApiKey() resolves, or the mount effect finds no credential
\* facility and assumes a credential present
StartupCheckDelivered ==
    \/ keyCheck = "pending" /\ keyCheck' = "settled" /\ isApiKeySelected' # "null"
    \/ ~mounted /\ mounted' /\ ~aistudio /\ isApiKeySelected' = "true"

\* the re-check of some credential prompt delivers its result in this step
SomeRecheckDelivered == \E p \in PromptSlots : RecheckDelivered(p)

\* an Animate call settles in this step with a credential-missing failure
AnimateFailsCredentialMissing ==
    \E s \in OpSlots :
      /\ ops[s].kind = "animate" /\ ops[s].phase = "threw"
      /\ ops'[s].kind = "none"
      /\ CredentialMissing(GenerateVideoCatch(ops[s].thrown))
      /\ isApiKeySelected' = "false"

\* C22 as stated: the credential flag is unknown until the start-up check has
\* delivered its result and leaves unknown only in that step; it never returns
\* to unknown; afterwards it changes only when a prompt's re-check is delivered
\* or an Animate call fails with a credential-missing error.
C22_CredentialFlag_Original ==
    /\ [](keyCheck # "settled" => isApiKeySelected = "null")
    /\ [][(isApiKeySelected = "null" /\ isApiKeySelected' # "null")
            => StartupCheckDelivered]_vars
    /\ [][isApiKeySelected # "null" => isApiKeySelected' # "null"]_vars
    /\ [][(isApiKeySelected # "null" /\ isApiKeySelected' # isApiKeySelected)
            => (SomeRecheckDelivered \/ AnimateFailsCredentialMissing)]_vars

\* C22: the credential flag is unknown before the application has mounted and
\* is one of unknown, present, absent; it leaves unknown only when the start-up
\* check or a prompt's re-check delivers its result (present at once when no
\* credential facility exists); once it has left unknown it never returns to
\* unknown; every later change happens when the start-up check or a prompt's
\* re-check delivers its result or an Animate call fails with a
\* credential-missing error.
C22_CredentialFlag ==
    /\ [](/\ isApiKeySelected \in {"null", "true", "false"}
          /\ ~mounted => isApiKeySelected = "null"
          /\ (mounted /\ ~aistudio) => isApiKeySelected # "null")
    /\ [][(isApiKeySelected = "null" /\ isApiKeySelected' # "null")
            => (StartupCheckDelivered \/ SomeRecheckDelivered)]_vars
    /\ [][isApiKeySelected # "null" => isApiKeySelected' # "null"]_vars
    /\ [][(isApiKeySelected # "null" /\ isApiKeySelected' # isApiKeySelected)
            => \/ StartupCheckDelivered
               \/ SomeRecheckDelivered
               \/ AnimateFailsCredentialMissing]_vars

\* C22 witness: without a credential facility the flag, present since the
\* mount, has become absent through an Animate failure
C22_Witness ==
    /\ ~aistudio /\ mounted
    /\ isApiKeySelected = "false"
    /\ appState = "error" /\ isQuotaError

\* ------------------------------------------------------------- attempt bound
\* the withRetry call in slot s advances in this step
CallAdvances(s) ==
    Next /\ ops[s].kind # "none" /\ ops'[s] # ops[s]

\* every promise a withRetry call awaits settles, backoff timers fire, no
\* remote operation stays unfinished forever, and queued continuations and
\* effects run
RetryFairSpec ==
    /\ Spec
    /\ WF_vars(ProgressEffect)
    /\ WF_vars(InpaintSettles \/ AnimateSettles)
    /\ \A s \in OpSlots : SF_vars(CallAdvances(s)) /\ SF_vars(OperationDone(s))

\* C23: a withRetry call invokes its operation at most MAX_RETRIES = 3 times;
\* one attempt runs at a time, attempt n+1 starting only when the delay that
\* followed the failure of attempt n has elapsed; a delay follows only a
\* failed attempt that is not the last, so none precedes the first attempt and
\* none follows the third; and the call ends once its attempts end.
C23_AttemptBound ==
    /\ [](\A s \in OpSlots : ops[s].kind # "none" =>
            /\ ops[s].calls \in 1 .. MAX_RETRIES
            /\ ops[s].delays \in 0 .. MAX_RETRIES - 1
            /\ ops[s].phase = "call"
                 => (ops[s].calls = ops[s].i + 1 /\ ops[s].delays = ops[s].calls - 1)
            /\ ops[s].phase = "delay"
                 => (ops[s].calls = ops[s].i + 1 /\ ops[s].delays = ops[s].calls
                     /\ ops[s].calls < MAX_RETRIES)
            /\ Settling(ops[s]) => ops[s].delays = ops[s].calls - 1)
    /\ [][\A s \in OpSlots :
            /\ (ops[s].kind # "none" /\ ops'[s].calls # ops[s].calls
                   /\ ops'[s].kind # "none")
                 => /\ ops[s].phase = "delay" /\ ops'[s].phase = "call"
                    /\ ops'[s].calls = ops[s].calls + 1
                    /\ ops'[s].delays = ops[s].delays
            /\ (ops[s].kind # "none" /\ ops'[s].delays # ops[s].delays
                   /\ ops'[s].kind # "none")
                 => /\ AttemptFailed(s) /\ ops'[s].phase = "delay"
                    /\ ops'[s].delays = ops[s].delays + 1
                    /\ ops'[s].calls = ops[s].calls
            /\ (ops[s].kind = "none" /\ ops'[s].kind # "none")
                 => (ops'[s].phase = "call" /\ ops'[s].calls = 1
                     /\ ops'[s].delays = 0)]_vars
    /\ \A s \in OpSlots :
         (ops[s].phase \in {"call", "delay"}) ~> Settling(ops[s])

\* C23 witness: a withRetry call has given up after three attempts and two
\* delays
C23_Witness ==
    \E s \in OpSlots :
      /\ ops[s].phase = "threw"
      /\ ops[s].thrown = QuotaExceededError(ops[s].serviceName)
      /\ ops[s].calls = MAX_RETRIES /\ ops[s].delays = MAX_RETRIES - 1

\* ------------------------------------------------------------- aspect ratio
\* processed images of every size
ProcessedImages == { ProcessedImage(w, h) : w \in 1 .. MaxSide, h \in 1 .. MaxSide }

\* a session in generating_video right after Generate Video was clicked, for
\* every size of the processed image
AspectInit ==
    /\ appState = "generating_video"
    /\ videoFile = VideoFile
    /\ frameSrc = FrameDataUrl
    /\ selection = Rect(0, 0, 5, 5)
    /\ processedImageSrc \in ProcessedImages
    /\ processedVideoUrl = Null
    /\ isApiKeySelected = "true"
    /\ error = Null
    /\ isQuotaError = FALSE
    /\ progress = 0
    /\ aistudio = FALSE
    /\ mounted = TRUE
    /\ keyCheck = "settled"
    /\ effectPending = FALSE
    /\ timers = 0
    /\ extracting = [u \in ExtractSlots |-> FALSE]
    /\ prompts = [p \in PromptSlots |-> NoPrompt]
    /\ ops = [s \in OpSlots |->
                IF s = 1
                THEN [WithRetryStart("animate", "video generation")
                        EXCEPT !.image = processedImageSrc]
                ELSE NoOp]

AspectSpec == AspectInit /\ [][DescriptorNext]_vars

\* C24: the generation request of Animate asks for 16:9 exactly when the
\* image is wider than it is high and for 9:16 otherwise, the square image
\* included; a request is never submitted without one of the two.
C24_AspectRatio ==
    \A s \in OpSlots :
      (ops[s].kind = "animate" /\ ops[s].requests > 0 /\ ops[s].step = "generate")
      => /\ ops[s].image.width > 0 /\ ops[s].image.height > 0
         /\ ops[s].aspectRatio \in {"16:9", "9:16"}
         /\ ops[s].aspectRatio = "16:9" <=> ops[s].image.width > ops[s].image.height
         /\ ops[s].image.width = ops[s].image.height => ops[s].aspectRatio = "9:16"

\* C24 witness: the generation request for a square image asks for 9:16
C24_Witness ==
    \E s \in OpSlots :
      /\ ops[s].kind = "animate" /\ ops[s].step = "generate"
      /\ ops[s].image.width = ops[s].image.height
      /\ ops[s].aspectRatio = "9:16"

\* ------------------------------------------------------------- retry granularity
\* the steps of an Animate attempt that work on a submitted remote job
JobSteps == {"wait", "poll", "download", "text", "blob"}

\* C25: withRetry encloses the whole of submit, poll and download: a quota
\* failure (text with "429" or "RESOURCE_EXHAUSTED") at any step of an attempt
\* that is not the last, a status poll or a download answered with status 429
\* included, is followed by the backoff delay and then by a fresh attempt that
\* starts at the image dimensions and submits a new generation request; one
\* Animate call submits at most 3 generation requests, one per attempt; and
\* the job an attempt polls or downloads is always the job of that attempt's
\* own request, never the job of an earlier attempt.
C25_RetryGranularity ==
    /\ [](\A s \in OpSlots : ops[s].kind = "animate" =>
            /\ ops[s].requests \in 0 .. MAX_RETRIES
            /\ (ops[s].phase = "call" /\ ops[s].step = "dims")
                 => (ops[s].requests = ops[s].calls - 1 /\ ~ops[s].operation.present)
            /\ (ops[s].phase = "call" /\ ops[s].step = "generate")
                 => (ops[s].requests = ops[s].calls /\ ~ops[s].operation.present)
            /\ (ops[s].phase = "call" /\ ops[s].step \in JobSteps)
                 => /\ ops[s].requests = ops[s].calls
                    /\ ops[s].operation.present
                    /\ ops[s].operation.job = ops[s].requests)
    /\ [][\A s \in OpSlots : ops[s].kind = "animate" =>
            /\ (AttemptFailed(s) /\ QuotaText(ops'[s].lastError)
                   /\ ops[s].calls < MAX_RETRIES)
                 => (ops'[s].phase = "delay" /\ ops'[s].requests = ops[s].requests)
            /\ (ops[s].phase = "delay" /\ ops'[s] # ops[s])
                 => /\ ops'[s].phase = "call" /\ ops'[s].step = "dims"
                    /\ ops'[s].calls = ops[s].calls + 1
                    /\ ~ops'[s].operation.present
            /\ ops'[s].requests # ops[s].requests
                 => \/ ops'[s].kind = "none"
                    \/ /\ ops[s].step = "dims" /\ ops'[s].step = "generate"
                       /\ ops'[s].requests = ops[s].requests + 1]_vars

\* C25 witness: the second attempt of an Animate call polls the job of its own
\* second request after the first attempt's download was answered with 429
C25_Witness ==
    \E s \in OpSlots :
      /\ ops[s].kind = "animate" /\ ops[s].phase = "call" /\ ops[s].step = "poll"
      /\ ops[s].lastError = DownloadFailedError("429")
      /\ ops[s].calls = 2 /\ ops[s].requests = 2 /\ ops[s].operation.job = 2

\* ------------------------------------------------------------- reset stability
\* the session holds nothing: frame, selection, processed image, processed
\* video and error are null and the quota flag is false
SessionCleared ==
    /\ frameSrc.null /\ selection.null
    /\ processedImageSrc.null /\ processedVideoUrl.null
    /\ error.null /\ ~isQuotaError

\* C26: the idle session (the session is idle again only through a reset)
\* holds nothing, and stays idle holding nothing until a file is selected,
\* whatever continuation arrives late: a credential prompt opened on the quota
\* panel before the reset and resolving present after it does not move the
\* session to complete or video_loaded.
C26_ResetStable ==
    /\ [](appState = "idle" => SessionCleared)
    /\ [][appState = "idle"
            => \/ appState' = "idle" /\ SessionCleared'
               \/ appState' = "processing" /\ ~videoFile'.null]_vars

\* C26 witness: the session is idle after a reset while a credential prompt
\* opened on the quota panel is still open
C26_Witness ==
    /\ appState = "idle" /\ SessionCleared
    /\ \E p \in PromptSlots :
         prompts[p].phase \in {"open", "has"} /\ prompts[p].isQuotaError

\* ------------------------------------------------------------- credential change frame
\* in this step the credential change in slot p, requested while the quota
\* flag was not set, is requested, goes on to its re-check, or ends
PlainChangeActs(p) ==
    /\ prompts'[p] # prompts[p]
    /\ IF prompts[p].phase = "none" THEN ~isQuotaError
       ELSE ~prompts[p].isQuotaError

\* C27: a credential change requested while the quota flag is not set, in any
\* state, changes at no step anything but the credential flag: state, video
\* file, frame, selection, processed image, processed video, error, quota flag
\* and progress keep their values, no progress effect or timer is started, and
\* every outstanding call is left as it is; the flag changes only when the
\* re-check is delivered.  Without a credential facility a request opens no
\* prompt at all.
C27_CredentialChangeFrame ==
    /\ [](~aistudio => \A p \in PromptSlots : prompts[p] = NoPrompt)
    /\ [][\A p \in PromptSlots : PlainChangeActs(p) =>
            /\ UNCHANGED <<appState, videoFile, frameSrc, selection,
                           processedImageSrc, processedVideoUrl, error,
                           isQuotaError, progress>>
            /\ UNCHANGED <<effectPending, timers, extracting, ops>>
            /\ isApiKeySelected' # isApiKeySelected => RecheckDelivered(p)]_vars

\* C27 witness: in generating_video, with the Animate call outstanding, the
\* re-check of a credential change requested without the quota flag is awaited
C27_Witness ==
    /\ appState = "generating_video"
    /\ \E s \in OpSlots : ops[s].kind = "animate" /\ ops[s].phase = "call"
    /\ \E p \in PromptSlots : prompts[p].phase = "has" /\ ~prompts[p].isQuotaError

\* ------------------------------------------------------------- error fields
\* an operation is started in this step: a file is selected, a removal is
\* confirmed or a video is requested
OperationStarts ==
    \/ \E u \in ExtractSlots : ~extracting[u] /\ extracting'[u]
    \/ \E s \in OpSlots : ops[s].kind = "none" /\ ops'[s].kind # "none"

\* an Inpaint or Animate call that returned is settled in this step
CallSucceeds ==
    \E s \in OpSlots : ops[s].phase = "returned" /\ ops'[s].kind = "none"

\* C28: in every state the error message is non-null exactly when the session
\* is in error, and the quota flag is set only in error; a step that starts an
\* operation leaves the error null and the quota flag false, and so does the
\* step in which a call that returned, after however many retried quota
\* failures, is settled.
C28_ErrorFields ==
    /\ [](/\ ~error.null <=> appState = "error"
          /\ isQuotaError => appState = "error")
    /\ [][(OperationStarts \/ CallSucceeds)
            => (error'.null /\ ~isQuotaError')]_vars

\* C28 witness: a call has returned on its third attempt, after two retried
\* quota failures, with no error and no quota flag stored
C28_Witness ==
    \E s \in OpSlots :
      /\ ops[s].phase = "returned" /\ ops[s].calls = MAX_RETRIES
      /\ error.null /\ ~isQuotaError

=============================================================================
